---- MODULE Spec2Model ----
(***************************************************************************)
(* Model of the go-pp pretty printer (package pp, Printer in printer.go    *)
(* and FormatValue in values.go).                                          *)
(*                                                                         *)
(* A Go value graph is a heap of nodes; a reflect.Value is a handle on a   *)
(* node together with the addressable / read-only flags reflect derives    *)
(* while walking the graph.  The rendered bytes are a sequence of tokens:  *)
(* the text of a token is what the printer appends to p.buf, its tag and   *)
(* key only record which statement of the printer wrote it.                *)
(***************************************************************************)
EXTENDS Integers, Sequences, FiniteSets, TLC

(***************************************************************************)
(* Bounds of the model.                                                    *)
(***************************************************************************)
\* call depth at which the Go runtime gives up on a recursion (stack overflow)
MaxStack == 6
\* iterations of the format-hook loop after which a run is counted as hung
MaxHookIter == 3
\* setter calls made before the render call
MaxSetterCalls == 2
\* number of copies of one pointer held by the shared-pointer input
MaxShare == 3

(***************************************************************************)
(* Program constants.                                                      *)
(***************************************************************************)
DefaultMaxInlineColumn == 80
DefaultIndent == "  "
DefaultThousandsSeparator == "_"
PrintTypesDefault == "default"
PrintTypesAlways == "always"
PrintTypesNever == "never"
\* stand-in for the rune U+0000, one rune wide
NUL == "@"

(***************************************************************************)
(* Values.  Node 0 is the zero reflect.Value (Kind 0).                     *)
(*   k     kind                                                            *)
(*   t     Type().String()                                                 *)
(*   a     Pointer(): pointee address, backing array, map header; 0 = nil  *)
(*   n     integer payload (bool: 0/1)                                     *)
(*   s     string payload, or the text a standard type formats to          *)
(*   kids  element, elements, fields, or key/value pairs in range order    *)
(*   names field names of a struct                                         *)
(*   priv  indexes of the non-exported fields                              *)
(*   ld    node of the value an atomic container currently holds           *)
(***************************************************************************)
Node(k, t) ==
  [k |-> k, t |-> t, a |-> 0, n |-> 0, s |-> "", kids |-> <<>>,
   names |-> <<>>, priv |-> {}, ld |-> 0]

IntN(t, n) == [Node("int", t) EXCEPT !.n = n]

UintN(t, n) == [Node("uint", t) EXCEPT !.n = n]

BoolN(b) == [Node("bool", "bool") EXCEPT !.n = IF b THEN 1 ELSE 0]

StrN(s) == [Node("string", "string") EXCEPT !.s = s]

PtrN(t, a, e) == [Node("ptr", t) EXCEPT !.a = a, !.kids = <<e>>]

NilPtrN(t) == Node("ptr", t)

IfaceN(e) == [Node("iface", "interface {}") EXCEPT !.kids = <<e>>]

NilIfaceN == Node("iface", "interface {}")

SliceN(t, a, es) == [Node("slice", t) EXCEPT !.a = a, !.kids = es]

NilSliceN(t) == Node("slice", t)

MapN(t, a, kvs) == [Node("map", t) EXCEPT !.a = a, !.kids = kvs]

StructN(t, names, priv, fs) ==
  [Node("struct", t) EXCEPT !.names = names, !.priv = priv, !.kids = fs]

(***************************************************************************)
(* Values handed to the printer.                                           *)
(***************************************************************************)
PointFields == <<"X", "Y", "Z">>

FooFields == <<"Foo", "Foos", "Bar">>

\* foo1, foo2 and bar of the values example, printed as &foo1
FooInput ==
  [name |-> "foo", root |-> 1, heap |-> <<
     PtrN("*main.Foo", 101, 2),
     StructN("main.Foo", FooFields, {}, <<1, 3, 5>>),
     SliceN("[]*main.Foo", 201, <<1, 4>>),
     PtrN("*main.Foo", 102, 6),
     PtrN("*main.Bar", 103, 7),
     StructN("main.Foo", FooFields, {}, <<1, 8, 9>>),
     StructN("main.Bar", <<"Foo">>, {}, <<4>>),
     NilSliceN("[]*main.Foo"),
     NilPtrN("*main.Bar") >>]

\* ns := []any{1, 2, 3}; ns[0] = ns; ns[2] = ns
NsInput ==
  [name |-> "ns", root |-> 1, heap |-> <<
     SliceN("[]interface {}", 201, <<2, 3, 2>>),
     IfaceN(1),
     IfaceN(4),
     IntN("int", 2) >>]

\* var x any; x = &x
SelfAnyInput ==
  [name |-> "selfany", root |-> 1, heap |-> <<
     PtrN("*interface {}", 101, 2),
     IfaceN(1) >>]

\* pt := &Point{1, 2, 3}; []*Point{pt, ..., pt} with k copies
SharedInput(k) ==
  [name |-> "shared", root |-> 1, heap |-> <<
     SliceN("[]*main.Point", 201, [i \in 1..k |-> 2]),
     PtrN("*main.Point", 101, 3),
     StructN("main.Point", PointFields, {}, <<4, 5, 6>>),
     IntN("int", 1), IntN("int", 2), IntN("int", 3) >>]

\* s := []int{1, 2, 3}; [][]int{s, s}
SharedSliceInput ==
  [name |-> "sharedslice", root |-> 1, heap |-> <<
     SliceN("[][]int", 201, <<2, 2>>),
     SliceN("[]int", 202, <<3, 4, 5>>),
     IntN("int", 1), IntN("int", 2), IntN("int", 3) >>]

\* Point{1, 2, 3} passed by value
PointInput ==
  [name |-> "point", root |-> 1, heap |-> <<
     StructN("main.Point", PointFields, {}, <<2, 3, 4>>),
     IntN("int", 1), IntN("int", 2), IntN("int", 3) >>]

\* Complex{Points: []Point{{1, 2, 3}}} passed by value
ComplexInput ==
  [name |-> "complex", root |-> 1, heap |-> <<
     StructN("main.Complex", <<"Points">>, {}, <<2>>),
     SliceN("[]main.Point", 201, <<3>>),
     StructN("main.Point", PointFields, {}, <<4, 5, 6>>),
     IntN("int", 1), IntN("int", 2), IntN("int", 3) >>]

\* n := 42; p := &n; the value is &p
PtrPtrInput ==
  [name |-> "ptrptr", root |-> 1, heap |-> <<
     PtrN("**int", 101, 2),
     PtrN("*int", 102, 3),
     IntN("int", 42) >>]

\* n := 42; []any{&n}
IfacePtrInput ==
  [name |-> "ifaceptr", root |-> 1, heap |-> <<
     SliceN("[]interface {}", 201, <<2>>),
     IfaceN(3),
     PtrN("*int", 101, 4),
     IntN("int", 42) >>]

\* Id{"user", 42} of the custom formatting example, passed by value
IdInput ==
  [name |-> "id", root |-> 1, heap |-> <<
     [StructN("main.Id", <<"Type", "Value">>, {}, <<2, 3>>)
        EXCEPT !.s = "user:42", !.ld = 4],
     StrN("user"),
     IntN("int", 42),
     StrN("user:42"),
     PtrN("*string", 103, 4) >>]

\* var n atomic.Int32; n.Store(42); the value is &n
AtomicInput ==
  [name |-> "atomic", root |-> 1, heap |-> <<
     PtrN("*atomic.Int32", 101, 2),
     [StructN("atomic.Int32", <<"_", "v">>, {1, 2}, <<3, 4>>) EXCEPT !.ld = 5],
     StructN("atomic.noCopy", <<>>, {}, <<>>),
     IntN("int32", 42),
     IntN("int32", 42) >>]

\* d := 5 * time.Nanosecond; the value is &d
DurationInput ==
  [name |-> "duration", root |-> 1, heap |-> <<
     PtrN("*time.Duration", 101, 2),
     [IntN("time.Duration", 5) EXCEPT !.s = "5ns"] >>]

\* n := 7; &T{Name: "a", secret: &n}
PrivateInput ==
  [name |-> "private", root |-> 1, heap |-> <<
     PtrN("*main.T", 101, 2),
     StructN("main.T", <<"Name", "secret">>, {2}, <<3, 4>>),
     StrN("a"),
     PtrN("*int", 102, 5),
     IntN("int", 7) >>]

\* []Name{{"ab"}, {"abc"}} passed by value
NamesInput ==
  [name |-> "names", root |-> 1, heap |-> <<
     SliceN("[]main.Name", 201, <<2, 3>>),
     StructN("main.Name", <<"S">>, {}, <<4>>),
     StructN("main.Name", <<"S">>, {}, <<5>>),
     StrN("ab"), StrN("abc") >>]

\* var p atomic.Pointer[any]; the value is &p, holding load (0: nothing
\* stored, else a pointer to an any holding 42)
AtomicPointerInput(load) ==
  [name |-> "atomicpointer", root |-> 1, heap |-> <<
     PtrN("*atomic.Pointer[interface {}]", 101, 2),
     [StructN("atomic.Pointer[interface {}]", <<"_", "_", "p">>, {1, 2, 3},
              <<3, 8, 4>>) EXCEPT !.ld = 5],
     Node("array", "[0]*interface {}"),
     [Node("unsafeptr", "unsafe.Pointer") EXCEPT !.a = load],
     IF load = 0 THEN NilPtrN("*interface {}")
     ELSE PtrN("*interface {}", load, 6),
     IfaceN(7),
     IntN("int", 42),
     StructN("atomic.noCopy", <<>>, {}, <<>>) >>]

\* a long string passed by value
StringInput ==
  [name |-> "string", root |-> 1, heap |-> << StrN("Hello world") >>]

\* the nil interface value
NilInput == [name |-> "nil", root |-> 0, heap |-> << >>]

\* n := 1234567, passed as &n
BigIntInput ==
  [name |-> "bigint", root |-> 1, heap |-> <<
     PtrN("*int", 101, 2), IntN("int", 1234567) >>]

\* map[Name]int{{"ab"}: 1}: a map with a struct for key
StructKeyInput ==
  [name |-> "structkey", root |-> 1, heap |-> <<
     MapN("map[main.Name]int", 301, <<2, 4>>),
     StructN("main.Name", <<"S">>, {}, <<3>>),
     StrN("ab"), IntN("int", 1) >>]

\* var x any = 42, passed as &x
AnyPtrInput ==
  [name |-> "anyptr", root |-> 1, heap |-> <<
     PtrN("*interface {}", 101, 2), IfaceN(3), IntN("int", 42) >>]

RenderInputs ==
  {BigIntInput, StructKeyInput, AnyPtrInput, FooInput, NsInput, SelfAnyInput, SharedSliceInput, PointInput,
   ComplexInput, PtrPtrInput, IfacePtrInput, IdInput, AtomicInput,
   DurationInput, PrivateInput, NamesInput, StringInput, NilInput,
   AtomicPointerInput(0), AtomicPointerInput(102)}
    \cup {SharedInput(k) : k \in 1..MaxShare}

(***************************************************************************)
(* State.                                                                  *)
(***************************************************************************)
VARIABLES
  \* Printer configuration
  formatValue, maxInlineColumn, indent, linePrefix, printTypes,
  hidePrivateFields, thousandsSeparator,
  \* Printer render state
  buf, pointers, mu,
  \* the value being printed and the position of the render call
  heap, root, pc,
  \* initPointers: visitedPointers and the pending calls of fn, first is next
  visitedPointers, stack,
  \* the writes received by the sink, one per render call
  out,
  \* the hook loop of printValue taken one iteration at a time: the current
  \* value, printType, the last answer of the hook (vs), whether the last
  \* iteration called the hook and on what, the iterations made
  hv, hprintType, hres, hcalled, harg, hiter,
  \* the result of compareMapKeys
  cmp,
  \* bookkeeping: setter calls made, keys in the order initPointers met them,
  \* pointerRef allocations per key, values handed to the format hook, inline
  \* trials made, how the call ended
  nbSetterCalls, met, allocated, hookCalls, decisions, fatal,
  \* the separator last given to SetThousandsSeparator
  lastSep,
  \* the label of the render call, the answer of the sink to its write, the
  \* error it returns, the text String returns, the method called
  label, sink, err, str, op

config ==
  <<formatValue, maxInlineColumn, indent, linePrefix, printTypes,
    hidePrivateFields, thousandsSeparator>>

vars ==
  <<formatValue, maxInlineColumn, indent, linePrefix, printTypes,
    hidePrivateFields, thousandsSeparator, buf, pointers, mu, heap, root, pc,
    visitedPointers, stack, out, hv, hprintType, hres, hcalled, harg, hiter,
    cmp,
    nbSetterCalls, met, allocated, hookCalls, decisions, fatal, lastSep,
    label, sink, err, str, op>>

hookLoop == <<hv, hprintType, hres, hcalled, harg, hiter>>

setterCalls == <<nbSetterCalls, lastSep>>

call == <<label, sink, err, str, op>>

Kind(id) == IF id = 0 THEN "invalid" ELSE heap[id].k

IsNil(id) ==
  IF Kind(id) = "iface" THEN heap[id].kids = <<>> ELSE heap[id].a = 0

RECURSIVE IsZero(_)
IsZero(id) ==
  CASE Kind(id) \in {"int", "uint", "bool"} -> heap[id].n = 0
    [] Kind(id) = "string" -> heap[id].s = ""
    [] Kind(id) \in {"ptr", "iface", "slice", "map"} -> IsNil(id)
    [] Kind(id) = "struct" ->
         \A i \in 1..Len(heap[id].kids) : IsZero(heap[id].kids[i])
    [] OTHER -> FALSE

(***************************************************************************)
(* initPointers: one call of fn per step.                                  *)
(***************************************************************************)
NewPointerRef == [n |-> Cardinality(DOMAIN pointers) + 1, printed |-> FALSE]

InitPointersStep ==
  /\ pc = "initPointers"
  /\ stack /= <<>>
  /\ LET v == Head(stack)
         ptr == heap[v].a
         skipped == IsZero(v) \/ Kind(v) \notin {"slice", "array", "map",
                                                  "struct", "ptr", "iface"}
         keyed == ~skipped /\ Kind(v) \in {"slice", "map", "ptr"}
         found == keyed /\ ptr \in visitedPointers
     IN  /\ stack' = IF skipped \/ found THEN Tail(stack)
                     ELSE heap[v].kids \o Tail(stack)
         /\ met' = IF keyed THEN Append(met, ptr) ELSE met
         /\ visitedPointers' =
              IF keyed /\ ~found THEN visitedPointers \cup {ptr}
              ELSE visitedPointers
         /\ pointers' =
              IF found
              THEN [k \in DOMAIN pointers \cup {ptr} |->
                      IF k = ptr THEN NewPointerRef ELSE pointers[k]]
              ELSE pointers
         /\ allocated' =
              IF found
              THEN [k \in DOMAIN allocated \cup {ptr} |->
                      IF k = ptr
                      THEN (IF k \in DOMAIN allocated THEN allocated[k] ELSE 0)
                             + 1
                      ELSE allocated[k]]
              ELSE allocated
  /\ UNCHANGED <<config, buf, mu, heap, root, pc, out, hookLoop, cmp,
                 setterCalls, hookCalls, decisions, fatal, call>>

(***************************************************************************)
(* reflect.Value: a node with its addressable and read-only flags.         *)
(***************************************************************************)
V(id, addr, ro) == [id |-> id, addr |-> addr, ro |-> ro]

ValueOf(id) == V(id, FALSE, FALSE)

Elem(v) ==
  IF heap[v.id].kids = <<>> THEN V(0, FALSE, v.ro)
  ELSE V(heap[v.id].kids[1], Kind(v.id) = "ptr", v.ro)

Index(v, i) == V(heap[v.id].kids[i], Kind(v.id) = "slice" \/ v.addr, v.ro)

Field(v, i) == V(heap[v.id].kids[i], v.addr, v.ro \/ i \in heap[v.id].priv)

NumKeys(v) == Len(heap[v.id].kids) \div 2

\* the i-th key and its value in the order the runtime iterates the map
MapKey(v, i) == V(heap[v.id].kids[2 * i - 1], FALSE, v.ro)

MapValue(v, i) == V(heap[v.id].kids[2 * i], FALSE, v.ro)

CanInterface(v) == ~v.ro

(***************************************************************************)
(* Text.                                                                   *)
(***************************************************************************)
Tok(s, tag, key) == [s |-> s, tag |-> tag, key |-> key]

Text(s) == IF s = "" THEN <<>> ELSE <<Tok(s, "text", 0)>>

RECURSIVE Width(_)
\* utf8.RuneCount of the bytes of a token sequence
Width(toks) ==
  IF toks = <<>> THEN 0 ELSE Len(Head(toks).s) + Width(Tail(toks))

Chars(s) == [i \in 1..Len(s) |-> SubSeq(s, i, i)]

Reverse(q) == [i \in 1..Len(q) |-> q[Len(q) + 1 - i]]

RECURSIVE Join(_)
Join(q) == IF q = <<>> THEN "" ELSE Head(q) \o Join(Tail(q))

RECURSIVE ReplaceAll(_, _, _)
ReplaceAll(s, old, new) ==
  IF Len(s) < Len(old) THEN s
  ELSE IF SubSeq(s, 1, Len(old)) = old
  THEN new \o ReplaceAll(SubSeq(s, Len(old) + 1, Len(s)), old, new)
  ELSE SubSeq(s, 1, 1) \o ReplaceAll(SubSeq(s, 2, Len(s)), old, new)

\* strconv.AppendQuote on text that needs no escape
Quote(s) == "\"" \o s \o "\""

RECURSIVE groupDigits(_, _, _)
\* the loop of addThousandsSeparator over the reversed runes, from index i
groupDigits(cs, i, sep) ==
  IF i > Len(cs) THEN <<>>
  ELSE (IF i - 1 > 0 /\ (i - 1) % 3 = 0 THEN <<sep>> ELSE <<>>)
         \o <<cs[i]>> \o groupDigits(cs, i + 1, sep)

addThousandsSeparator(s) ==
  LET cs2 == [i \in 1..Len(s) |-> NUL]
      cs == Reverse(Chars(s))
  IN  Join(Reverse(cs2 \o groupDigits(cs, 1, thousandsSeparator)))

(***************************************************************************)
(* Format hooks.  A hook answers nil, a RawString, another value, or       *)
(* panics.                                                                 *)
(***************************************************************************)
HookNil == [r |-> "nil", s |-> "", v |-> 0]

HookRaw(s) == [r |-> "raw", s |-> s, v |-> 0]

HookValue(id) == [r |-> "val", s |-> "", v |-> id]

HookPanic == [r |-> "panic", s |-> "", v |-> 0]

AtomicTypes ==
  {"atomic.Bool", "atomic.Int32", "atomic.Int64", "atomic.Uint32",
   "atomic.Uint64", "atomic.Uintptr", "atomic.Value",
   "atomic.Pointer[interface {}]"}

RawTypes ==
  {"big.Int", "big.Float", "big.Rat", "regexp.Regexp", "time.Duration",
   "time.Time"}

\* pp.FormatValue: UnsafeAddr panics on a value that is not addressable
FormatValue(v) ==
  IF ~v.addr THEN HookPanic
  ELSE IF heap[v.id].t \in AtomicTypes THEN HookValue(heap[v.id].ld)
  ELSE IF heap[v.id].t \in RawTypes THEN HookRaw(heap[v.id].s)
  ELSE HookNil

\* the hook of the custom formatting example
IdHook(v) ==
  IF heap[v.id].t = "main.Id" THEN HookRaw(heap[v.id].s) ELSE FormatValue(v)

\* func(v reflect.Value) any { return nil }
NoOverride(v) == HookNil

\* a hook answering id.String() for an Id, nil for anything else
Stringer(v) ==
  IF heap[v.id].t = "main.Id" THEN HookValue(heap[v.id].ld) ELSE HookNil

\* a hook answering v.Interface() for an int, nil for anything else
Identity(v) ==
  IF heap[v.id].t = "int" THEN HookValue(v.id) ELSE HookNil

\* the pointer a hook makes of the value it has computed
AddressOf(id) ==
  CHOOSE i \in 1..Len(heap) : heap[i].k = "ptr" /\ heap[i].kids = <<id>>

\* a hook answering a pointer to id.String() for an Id, nil for anything else
Boxed(v) ==
  IF heap[v.id].t = "main.Id" THEN HookValue(AddressOf(heap[v.id].ld))
  ELSE HookNil

UserHooks == {"IdHook", "NoOverride", "Stringer", "Identity", "Boxed"}

CallHook(v) ==
  CASE formatValue = "IdHook" -> IdHook(v)
    [] formatValue = "NoOverride" -> NoOverride(v)
    [] formatValue = "Stringer" -> Stringer(v)
    [] formatValue = "Identity" -> Identity(v)
    [] formatValue = "Boxed" -> Boxed(v)
    [] OTHER -> FormatValue(v)

(***************************************************************************)
(* The printer.  A printer in the middle of printValue is the record       *)
(*   buf, level, inline   the fields of Printer                            *)
(*   pointers             the pointer table, shared by a clone             *)
(*   hookCalls            the values handed to the format hook so far      *)
(*   decisions            the inline trials made so far                    *)
(*   calls                the calls of printValue that started a trial     *)
(*   fatal                "" or why the call cannot go on                  *)
(***************************************************************************)
Emit(st, toks) == [st EXCEPT !.buf = @ \o toks]

Fail(st, why) == [st EXCEPT !.fatal = why]

NoAnnotation(st) == [st |-> st, first |-> FALSE, ann |-> <<>>]

pointerAnnotation(st, ptr) ==
  IF ptr \notin DOMAIN st.pointers THEN NoAnnotation(st)
  ELSE LET ref == st.pointers[ptr]
       IN  IF ~ref.printed
           THEN [st |-> [st EXCEPT !.pointers[ptr].printed = TRUE],
                 first |-> TRUE,
                 ann |-> <<Tok("#" \o ToString(ref.n) \o "=", "def", ptr)>>]
           ELSE [st |-> st, first |-> FALSE,
                 ann |-> <<Tok("#" \o ToString(ref.n) \o "#", "ref", ptr)>>]

\* the budget without the indentation of the current level
currentMaxInlineColumnNoLevel(st) == maxInlineColumn - Len(linePrefix)

currentMaxInlineColumn(st) ==
  maxInlineColumn - Len(linePrefix) - st.level * Len(indent)

printLineStart(st) ==
  Emit(st, Text(linePrefix) \o [i \in 1..st.level |-> Tok(indent, "text", 0)])

printNewline(st) == Emit(st, <<Tok("\n", "nl", 0)>>)

printBooleanValue(st, v) ==
  Emit(st, Text(IF heap[v.id].n /= 0 THEN "true" ELSE "false"))

\* printIntegerValue and printUnsignedIntegerValue
printIntegerValue(st, v) ==
  LET s == ToString(heap[v.id].n)
  IN  IF thousandsSeparator = "" THEN Emit(st, Text(s))
      ELSE Emit(st, Text(addThousandsSeparator(s)))

printStringValue(st, v) == Emit(st, Text(Quote(heap[v.id].s)))

\* the zero Value is the only value of the model without a printer of its own
printUnknownValue(st, v) == Emit(st, Text("nil"))

HexDigits == "0123456789abcdef"

RECURSIVE Hex(_)
Hex(n) ==
  IF n < 16 THEN SubSeq(HexDigits, n + 1, n + 1)
  ELSE Hex(n \div 16) \o SubSeq(HexDigits, (n % 16) + 1, (n % 16) + 1)

\* %#016x on a 64-bit build: 0x and zeros up to 16 characters in all
printPointerAddressValue(st, ptr) ==
  IF ptr = 0 THEN Emit(st, Text("nil"))
  ELSE Emit(st, Text("0x" \o Join([i \in 1..14 - Len(Hex(ptr)) |-> "0"])
                         \o Hex(ptr)))

valueTypeString(v) == ReplaceAll(heap[v.id].t, "interface {}", "any")

\* p.printString(p.valueTypeString(v)); p.printByte('('): Type() panics on
\* the zero Value
printTypeOpen(st, v) ==
  IF v.id = 0 THEN Fail(st, "panic")
  ELSE Emit(st, <<Tok(valueTypeString(v), "type", 0), Tok("(", "text", 0)>>)

printTypeForValueNeverAsDefault(v) ==
  CASE printTypes = PrintTypesAlways -> TRUE
    [] printTypes \in {PrintTypesDefault, PrintTypesNever} ->
         IF Kind(v.id) \in {"slice", "array", "map", "struct", "chan", "func",
                            "iface"}
         THEN TRUE
         ELSE IF Kind(v.id) = "ptr"
         THEN IsNil(v.id) \/ Kind(Elem(v).id) \in {"ptr", "iface"}
         ELSE FALSE
    [] OTHER -> TRUE

printTypeForValue(v) ==
  CASE printTypes = PrintTypesAlways -> TRUE
    [] printTypes = PrintTypesDefault ->
         IF Kind(v.id) \in {"slice", "array", "map", "struct", "chan", "func",
                            "iface"}
         THEN TRUE
         ELSE IF Kind(v.id) = "ptr"
         THEN IsNil(v.id) \/ Kind(Elem(v).id) \in {"ptr", "iface"}
         ELSE FALSE
    [] printTypes = PrintTypesNever -> FALSE
    [] OTHER -> TRUE

atomicKinds ==
  {"bool", "int", "uint", "uintptr", "string", "func", "chan", "unsafeptr"}

RECURSIVE atomicValue(_, _)
\* depth is the number of nested calls; the result is "yes", "no" or, when
\* the recursion outgrows the stack, "overflow"
atomicValue(v, depth) ==
  IF depth > MaxStack THEN "overflow"
  ELSE IF Kind(v.id) \in {"iface", "ptr"} THEN atomicValue(Elem(v), depth + 1)
  ELSE IF Kind(v.id) \in atomicKinds THEN "yes"
  ELSE "no"

RECURSIVE allAtomic(_, _)
\* the loops of inlinableValue: the first child that is not atomic decides
allAtomic(vs, i) ==
  IF i > Len(vs) THEN "yes"
  ELSE LET a == atomicValue(vs[i], 1)
       IN  IF a /= "yes" THEN a ELSE allAtomic(vs, i + 1)

inlinableValue(v) ==
  IF Kind(v.id) = "invalid" THEN "yes"
  ELSE LET a == atomicValue(v, 1)
       IN  IF a /= "no" THEN a
           ELSE CASE Kind(v.id) \in {"array", "slice"} ->
                       allAtomic([i \in 1..Len(heap[v.id].kids) |-> Index(v, i)], 1)
                  [] Kind(v.id) = "map" ->
                       allAtomic([i \in 1..NumKeys(v) |-> MapValue(v, i)], 1)
                  [] Kind(v.id) = "struct" ->
                       allAtomic([i \in 1..Len(heap[v.id].kids) |-> Field(v, i)], 1)
                  [] OTHER -> "no"

(***************************************************************************)
(* Map keys.                                                               *)
(***************************************************************************)
\* the bytes the inputs use, in byte order
Alphabet == "0123456789ABCDEFGHIJKLMNOPQRSTUVWXYZabcdefghijklmnopqrstuvwxyz"

Ord(c) == CHOOSE i \in 1..Len(Alphabet) : SubSeq(Alphabet, i, i) = c

RECURSIVE StringsCompare(_, _)
\* strings.Compare
StringsCompare(s1, s2) ==
  CASE s1 = "" /\ s2 = "" -> 0
    [] s1 = "" -> -1
    [] s2 = "" -> 1
    [] OTHER ->
         LET c1 == Ord(SubSeq(s1, 1, 1))
             c2 == Ord(SubSeq(s2, 1, 1))
         IN  IF c1 < c2 THEN -1
             ELSE IF c2 < c1 THEN 1
             ELSE StringsCompare(SubSeq(s1, 2, Len(s1)), SubSeq(s2, 2, Len(s2)))

Less(x, y) == IF x < y THEN -1 ELSE IF y < x THEN 1 ELSE 0

\* the kind "int" stands for Int and Int8..Int64, "uint" for Uint and
\* Uint8..Uint64: keys of one map have one type, so k1 == k2 is decided by
\* the kinds of the model
compareMapKeys(n1, n2) ==
  IF n1.k = n2.k
  THEN CASE n1.k = "bool" -> Less(n1.n, n2.n)
         [] n1.k = "int" -> Less(n1.n, n2.n)
         [] n1.k = "uint" -> 0
         [] n1.k = "uintptr" -> Less(n1.n, n2.n)
         [] n1.k = "string" -> StringsCompare(n1.s, n2.s)
         [] n1.k \in {"chan", "ptr"} -> Less(n1.a, n2.a)
         [] OTHER -> 0
  ELSE 0

Swap(data, i, j) ==
  [data EXCEPT ![i] = data[j], ![j] = data[i]]

RECURSIVE insertionSortInner(_, _, _)
\* for j := i; j > a && cmp(data[j], data[j-1]) < 0; j-- { swap }
insertionSortInner(data, j, key) ==
  IF j > 1 /\ compareMapKeys(key[data[j]], key[data[j - 1]]) < 0
  THEN insertionSortInner(Swap(data, j, j - 1), j - 1, key)
  ELSE data

RECURSIVE insertionSort(_, _, _)
insertionSort(data, i, key) ==
  IF i > Len(data) THEN data
  ELSE insertionSort(insertionSortInner(data, i, key), i + 1, key)

\* slices.SortFunc(keys, p.compareMapKeys): below 13 elements pdqsort is an
\* insertion sort.  The result lists the positions of the keys in range order.
SortFunc(key) == insertionSort([i \in 1..Len(key) |-> i], 2, key)

(***************************************************************************)
(* printValue and the printers of the composite kinds.                     *)
(***************************************************************************)
RECURSIVE printValue(_, _), printValueBlock(_, _), formatLoop(_, _, _, _),
          printTyped(_, _, _),
          printKind(_, _), printSequenceValue(_, _), printElements(_, _, _),
          printMapValue(_, _), printEntries(_, _, _, _),
          printStructValue(_, _), printFields(_, _, _),
          printInterfaceValue(_, _), printPointerValue(_, _)

\* the separator after child i of n
printSeparator(st, i, n) ==
  IF st.fatal /= "" THEN st
  ELSE LET st1 == IF ~st.inline \/ i < n THEN Emit(st, Text(",")) ELSE st
       IN  IF st.inline
           THEN (IF i < n THEN Emit(st1, Text(" ")) ELSE st1)
           ELSE printNewline(st1)

\* if !p.inline { p.printLineStart() }
lineStart(st) == IF st.inline THEN st ELSE printLineStart(st)

\* the opening bracket, one level down
openBlock(st, open, key) ==
  LET st1 == Emit(st, <<Tok(open, "open", key)>>)
      st2 == IF st.inline THEN st1 ELSE printNewline(st1)
  IN  [st2 EXCEPT !.level = @ + 1]

\* one level up, the closing bracket
closeBlock(st, inline, close) ==
  IF st.fatal /= "" THEN st
  ELSE LET st1 == [st EXCEPT !.level = @ - 1]
       IN  Emit(IF inline THEN st1 ELSE printLineStart(st1), Text(close))

\* the opening bracket, the children printed by body one level down, the
\* closing bracket
printBlock(st, open, key, close, body(_)) ==
  closeBlock(body(openBlock(st, open, key)), st.inline, close)

printElements(st, v, i) ==
  IF st.fatal /= "" \/ i > Len(heap[v.id].kids) THEN st
  ELSE printElements(printSeparator(printValue(lineStart(st), Index(v, i)),
                                    i, Len(heap[v.id].kids)),
                     v, i + 1)

printSequenceValue(st, v) ==
  IF Kind(v.id) = "slice" /\ IsNil(v.id) THEN Emit(st, Text("nil"))
  ELSE LET pa == IF Kind(v.id) = "slice"
                 THEN pointerAnnotation(st, heap[v.id].a)
                 ELSE NoAnnotation(st)
           st1 == Emit(pa.st, pa.ann)
           body(s) == printElements(s, v, 1)
       IN  IF pa.ann /= <<>> /\ ~pa.first THEN st1
           ELSE printBlock(st1, "[", heap[v.id].a, "]", body)

\* the colon between a key and its value
printColon(st) == IF st.fatal /= "" THEN st ELSE Emit(st, Text(": "))

printEntries(st, v, keys, i) ==
  IF st.fatal /= "" \/ i > Len(keys) THEN st
  ELSE printEntries(
         printSeparator(
           printValue(printColon(printValue(lineStart(st),
                                            MapKey(v, keys[i]))),
                      MapValue(v, keys[i])),
           i, Len(keys)),
         v, keys, i + 1)

printMapValue(st, v) ==
  IF IsNil(v.id) THEN Emit(st, Text("nil"))
  ELSE IF NumKeys(v) = 0 THEN Emit(st, Text("{}"))
  ELSE LET pa == pointerAnnotation(st, heap[v.id].a)
           st1 == Emit(pa.st, pa.ann)
           keys == SortFunc([i \in 1..NumKeys(v) |-> heap[MapKey(v, i).id]])
           body(s) == printEntries(s, v, keys, 1)
       IN  IF pa.ann /= <<>> /\ ~pa.first THEN st1
           ELSE printBlock(st1, "{", heap[v.id].a, "}", body)

printFields(st, v, i) ==
  IF st.fatal /= "" \/ i > Len(heap[v.id].kids) THEN st
  ELSE IF i \in heap[v.id].priv /\ hidePrivateFields
  THEN printFields(st, v, i + 1)
  ELSE printFields(
         printSeparator(
           printValue(Emit(lineStart(st),
                           Text(heap[v.id].names[i]) \o Text(": ")),
                      Field(v, i)),
           i, Len(heap[v.id].kids)),
         v, i + 1)

printStructValue(st, v) ==
  IF Len(heap[v.id].kids) = 0 THEN Emit(st, Text("{}"))
  ELSE LET body(s) == printFields(s, v, 1)
       IN  printBlock(st, "{", 0, "}", body)

printInterfaceValue(st, v) ==
  IF IsZero(v.id) THEN Emit(st, Text("nil")) ELSE printValue(st, Elem(v))

printPointerValue(st, v) ==
  IF IsZero(v.id) THEN Emit(st, Text("nil"))
  ELSE LET pa == pointerAnnotation(st, heap[v.id].a)
           st1 == Emit(pa.st, pa.ann)
       IN  IF pa.ann /= <<>> /\ ~pa.first THEN st1
           ELSE printValue(Emit(st1, <<Tok("&", "open", heap[v.id].a)>>),
                           Elem(v))

\* the switch on v.Kind() at the end of printValue
printKind(st, v) ==
  CASE Kind(v.id) = "bool" -> printBooleanValue(st, v)
    [] Kind(v.id) \in {"int", "uint"} -> printIntegerValue(st, v)
    [] Kind(v.id) = "string" -> printStringValue(st, v)
    [] Kind(v.id) \in {"array", "slice"} -> printSequenceValue(st, v)
    [] Kind(v.id) = "map" -> printMapValue(st, v)
    [] Kind(v.id) = "struct" -> printStructValue(st, v)
    [] Kind(v.id) = "iface" -> printInterfaceValue(st, v)
    [] Kind(v.id) = "ptr" -> printPointerValue(st, v)
    [] Kind(v.id) \in {"uintptr", "unsafeptr"} ->
         printPointerAddressValue(st, IF Kind(v.id) = "uintptr"
                                      THEN heap[v.id].n ELSE heap[v.id].a)
    [] OTHER -> printUnknownValue(st, v)

\* the RawString branch of the hook loop
printRawString(st, v, s) ==
  LET st1 == IF printTypes /= PrintTypesNever THEN printTypeOpen(st, v) ELSE st
      st2 == Emit(st1, <<Tok(s, "raw", 0)>>)
  IN  IF printTypes /= PrintTypesNever THEN Emit(st2, Text(")")) ELSE st2

LoopResult(st, v, printType, returned) ==
  [st |-> st, v |-> v, printType |-> printType, returned |-> returned]

\* the iteration without the special case of pointers and interfaces
formatStepNoElem(v) ==
  [called |-> TRUE, arg |-> v, vs |-> CallHook(v)]

\* one iteration of the hook loop on v: whether the hook is called, on what,
\* and its answer
formatStep(v) ==
  LET ref == Kind(v.id) \in {"ptr", "iface"}
      called == ~(ref /\ IsNil(v.id))
      arg == IF ref THEN Elem(v) ELSE v
  IN  [called |-> called, arg |-> arg,
       vs |-> IF called THEN CallHook(arg) ELSE HookNil]

\* what the loop does with the answer of one iteration
loopStep(st, v, printType, iter, step) ==
  CASE step.vs.r = "panic" -> LoopResult(Fail(st, "panic"), v, printType, TRUE)
    [] step.vs.r = "nil" -> LoopResult(st, v, printType, FALSE)
    [] step.vs.r = "raw" ->
         LoopResult(printRawString(st, v, step.vs.s), v, printType, TRUE)
    [] OTHER -> formatLoop(st, ValueOf(step.vs.v), TRUE, iter + 1)

\* the hook was called on step.arg
hookCalled(st, step) ==
  IF step.called THEN [st EXCEPT !.hookCalls = @ \cup {step.arg.id}] ELSE st

\* the hook loop; returned tells that printValue returned from inside it.
\* A loop still running after MaxHookIter iterations is counted as hung.
formatLoop(st, v, printType, iter) ==
  IF Kind(v.id) = "invalid" \/ ~CanInterface(v)
  THEN LoopResult(st, v, printType, FALSE)
  ELSE IF iter > MaxHookIter
  THEN LoopResult(Fail(st, "hang"), v, printType, TRUE)
  ELSE loopStep(hookCalled(st, formatStep(v)), v, printType, iter,
                formatStep(v))

\* the closing parenthesis of the type
printTypeClose(st, printType) ==
  IF st.fatal /= "" \/ ~printType THEN st ELSE Emit(st, Text(")"))

\* the value by its kind, after its type
printKindTyped(st, v, printType) ==
  IF st.fatal /= "" THEN st ELSE printTypeClose(printKind(st, v), printType)

\* printValue after the hook loop: the type, the value by its kind
printTyped(st, v, printType) ==
  printKindTyped(IF printType THEN printTypeOpen(st, v) ELSE st, v, printType)

\* printValue after the hook loop, unless it returned from inside the loop
afterLoop(r) ==
  IF r.returned THEN r.st ELSE printTyped(r.st, r.v, r.printType)

\* printValue from the call of printTypeForValue on
printValueBlock(st, v) ==
  afterLoop(formatLoop(st, v, printTypeForValue(v), 1))

\* the width of what the printer has put so far on the line it is writing;
\* the first line starts with the line prefix that formatHeader adds
currentColumn(st) ==
  LET eols == {i \in 1..Len(st.buf) : st.buf[i].tag = "nl"}
  IN  IF eols = {} THEN Len(linePrefix) + Width(st.buf)
      ELSE Width(SubSeq(st.buf,
                        1 + CHOOSE i \in eols : \A j \in eols : j <= i,
                        Len(st.buf)))

\* the end of the inline trial p2 of v: its bytes if they fit, else the
\* block form; the pointer table is shared with the trial
commitTrial(st, v, p2) ==
  LET width == Width(p2.buf)
      fits == width <= currentMaxInlineColumn(st)
      p == [st EXCEPT !.pointers = p2.pointers,
                      !.hookCalls = p2.hookCalls,
                      !.calls = p2.calls,
                      !.decisions = p2.decisions \cup
                         {[id |-> v.id, level |-> st.level,
                           width |-> width, inlined |-> fits,
                           nested |-> st.inline, call |-> st.calls,
                           column |-> currentColumn(st),
                           flagged |->
                             {k \in DOMAIN st.pointers :
                                p2.pointers[k].printed /= st.pointers[k].printed}]}]
  IN  IF p2.fatal /= ""
      THEN [st EXCEPT !.fatal = p2.fatal, !.pointers = p2.pointers,
                      !.hookCalls = p2.hookCalls]
      ELSE IF fits THEN Emit(p, p2.buf)
      ELSE printValueBlock(p, v)

\* the clone p2 of the inline trial, before p2.printValue(v)
trialClone(st) ==
  [st EXCEPT !.buf = <<>>, !.inline = TRUE, !.calls = @ + 1]

printValueRetrial(st, v) ==
  IF st.fatal /= "" THEN st
  ELSE IF inlinableValue(v) = "overflow" THEN Fail(st, "overflow")
  ELSE IF inlinableValue(v) = "yes" /\ (~st.inline \/ st.buf /= <<>>)
  THEN commitTrial([st EXCEPT !.calls = @ + 1], v,
                   printValue(trialClone(st), v))
  ELSE printValueBlock(st, v)

printValue(st, v) ==
  IF st.fatal /= "" THEN st
  ELSE IF inlinableValue(v) = "overflow" THEN Fail(st, "overflow")
  ELSE IF inlinableValue(v) = "yes" /\ ~st.inline
  THEN commitTrial([st EXCEPT !.calls = @ + 1], v,
                   printValue(trialClone(st), v))
  ELSE printValueBlock(st, v)

(***************************************************************************)
(* The operations of a Printer.                                            *)
(***************************************************************************)
\* values the setters are called with
Columns == {10, 22}

Indents == {"\t"}

LinePrefixes == {"> "}

\* the runes given to SetThousandsSeparator, "" the rune 0
Separators == {",", ""}

\* the label arguments of a render call: none, a format string, a first
\* argument that is no string
NoLabel == [kind |-> "none", format |-> ""]

Labels ==
  {NoLabel, [kind |-> "string", format |-> "x"],
   [kind |-> "other", format |-> ""]}

\* the answers of a sink to Write: all bytes taken, an error, a part of the
\* bytes taken without error
Accepted == [all |-> TRUE, err |-> ""]

SinkAnswers ==
  {Accepted, [all |-> FALSE, err |-> "EIO"], [all |-> FALSE, err |-> ""]}

Init ==
  /\ formatValue = ""
  /\ maxInlineColumn = 0
  /\ indent = ""
  /\ linePrefix = ""
  /\ printTypes = ""
  /\ hidePrivateFields = FALSE
  /\ thousandsSeparator = ""
  /\ buf = <<>>
  /\ pointers = <<>>
  /\ mu = FALSE
  /\ heap = <<>>
  /\ root = 0
  /\ pc = "idle"
  /\ visitedPointers = {}
  /\ stack = <<>>
  /\ out = <<>>
  /\ hv = ValueOf(0)
  /\ hprintType = FALSE
  /\ hres = HookNil
  /\ hcalled = FALSE
  /\ harg = 0
  /\ hiter = 0
  /\ cmp = 0
  /\ nbSetterCalls = 0
  /\ lastSep = "unset"
  /\ label = NoLabel
  /\ sink = Accepted
  /\ err = ""
  /\ str = <<>>
  /\ op = "PrintTo"
  /\ met = <<>>
  /\ allocated = <<>>
  /\ hookCalls = {}
  /\ decisions = {}
  /\ fatal = ""

SetterNoLock ==
  /\ nbSetterCalls < MaxSetterCalls
  /\ nbSetterCalls' = nbSetterCalls + 1
  /\ UNCHANGED <<buf, pointers, mu, heap, root, pc, visitedPointers, stack,
                 out, hookLoop, cmp, met, allocated, hookCalls, decisions,
                 fatal, call>>

\* what every setter does besides its assignment: it takes and releases mu
Setter ==
  /\ ~mu
  /\ nbSetterCalls < MaxSetterCalls
  /\ nbSetterCalls' = nbSetterCalls + 1
  /\ UNCHANGED <<buf, pointers, mu, heap, root, pc, visitedPointers, stack,
                 out, hookLoop, cmp, met, allocated, hookCalls, decisions,
                 fatal, call>>

SetFormatValueFunc ==
  /\ Setter
  /\ \E fn \in UserHooks : formatValue' = fn
  /\ UNCHANGED <<maxInlineColumn, indent, linePrefix, printTypes,
                 hidePrivateFields, thousandsSeparator,
                 lastSep>>

SetMaxInlineColumn ==
  /\ Setter
  /\ \E column \in Columns : maxInlineColumn' = column
  /\ UNCHANGED <<formatValue, indent, linePrefix, printTypes,
                 hidePrivateFields, thousandsSeparator,
                 lastSep>>

SetIndent ==
  /\ Setter
  /\ \E s \in Indents : indent' = s
  /\ UNCHANGED <<formatValue, maxInlineColumn, linePrefix, printTypes,
                 hidePrivateFields, thousandsSeparator,
                 lastSep>>

SetLinePrefix ==
  /\ Setter
  /\ \E prefix \in LinePrefixes : linePrefix' = prefix
  /\ UNCHANGED <<formatValue, maxInlineColumn, indent, printTypes,
                 hidePrivateFields, thousandsSeparator,
                 lastSep>>

SetPrintTypes ==
  /\ Setter
  /\ \E types \in {PrintTypesAlways, PrintTypesNever} : printTypes' = types
  /\ UNCHANGED <<formatValue, maxInlineColumn, indent, linePrefix,
                 hidePrivateFields, thousandsSeparator,
                 lastSep>>

SetHidePrivateFields ==
  /\ Setter
  /\ hidePrivateFields' = TRUE
  /\ UNCHANGED <<formatValue, maxInlineColumn, indent, linePrefix, printTypes,
                 thousandsSeparator,
                 lastSep>>

SetThousandsSeparator ==
  /\ Setter
  /\ \E sep \in Separators :
       /\ thousandsSeparator' = sep
       /\ lastSep' = sep
  /\ UNCHANGED <<formatValue, maxInlineColumn, indent, linePrefix, printTypes,
                 hidePrivateFields>>

\* the assignments of reset but the call of initPointers
reset ==
  /\ formatValue' = IF formatValue = "" THEN "FormatValue" ELSE formatValue
  /\ maxInlineColumn' =
       IF maxInlineColumn = 0 THEN DefaultMaxInlineColumn ELSE maxInlineColumn
  /\ indent' = IF indent = "" THEN DefaultIndent ELSE indent
  /\ printTypes' = IF printTypes = "" THEN PrintTypesDefault ELSE printTypes
  /\ thousandsSeparator' =
       IF thousandsSeparator = "" THEN DefaultThousandsSeparator
       ELSE thousandsSeparator
  /\ buf' = <<>>
  /\ UNCHANGED <<linePrefix, hidePrivateFields>>

\* PrintTo up to the first call of fn in initPointers: the lock is taken, the
\* printer reset; a nil value leaves the pointer table as it is
PrintToOf(inputs, labels) ==
  /\ ~mu
  /\ mu' = TRUE
  /\ reset
  /\ \E in \in inputs :
       /\ heap' = in.heap
       /\ root' = in.root
       /\ IF in.root /= 0
          THEN /\ pointers' = <<>>
               /\ visitedPointers' = {}
               /\ met' = <<>>
               /\ allocated' = <<>>
               /\ stack' = <<in.root>>
          ELSE /\ stack' = <<>>
               /\ UNCHANGED <<pointers, visitedPointers, met, allocated>>
  /\ \E l \in labels : label' = l
  /\ pc' = "initPointers"
  /\ UNCHANGED <<out, hookLoop, cmp, setterCalls, hookCalls, decisions,
                 fatal, sink, err, str>>

PrintTo == pc = "idle" /\ PrintToOf(RenderInputs, Labels) /\ UNCHANGED op

\* the printer at the call p.printValue(value) of PrintTo
Printer0 ==
  [buf |-> buf, level |-> 0, inline |-> FALSE, pointers |-> pointers,
   hookCalls |-> {}, decisions |-> {}, calls |-> 0, fatal |-> ""]

\* p.printValue(value) in PrintTo.  A stack overflow ends the process, a
\* panic unwinds through the deferred Unlock, a hook that never answers nil
\* or a RawString keeps the call in the loop.
PrintValue ==
  /\ pc = "initPointers"
  /\ stack = <<>>
  /\ LET p == printValue(Printer0, ValueOf(root))
     IN  /\ buf' = p.buf
         /\ pointers' = p.pointers
         /\ hookCalls' = p.hookCalls
         /\ decisions' = p.decisions
         /\ fatal' = p.fatal
         /\ pc' = CASE p.fatal = "" -> "write"
                    [] p.fatal = "overflow" -> "overflow"
                    [] p.fatal = "panic" -> "panic"
                    [] OTHER -> "hang"
         /\ mu' = (p.fatal /= "panic")
  /\ UNCHANGED <<config, heap, root, visitedPointers, stack, out, hookLoop,
                 cmp, setterCalls, met, allocated, call>>

formatHeaderSameLine ==
  IF label.kind = "none" THEN Text(linePrefix)
  ELSE Text(linePrefix) \o Text("[" \o label.format \o "]") \o Text(" ")

\* formatHeader: nothing but the line prefix without label; the label on a
\* line of its own when the buffer holds a newline before its last byte,
\* before the value otherwise
formatHeader ==
  IF label.kind = "none" THEN Text(linePrefix)
  ELSE IF \E eol \in 1..Len(buf) - 1 : buf[eol].tag = "nl"
  THEN Text(linePrefix) \o Text("[" \o label.format \o "]")
         \o <<Tok("\n", "nl", 0)>> \o Text(linePrefix)
  ELSE Text(linePrefix) \o Text("[" \o label.format \o "]") \o Text(" ")

ioCopyNoError(ans) == ""

\* io.Copy(w, &buf): the buffer is handed to the sink in one Write; the error
\* of the sink is returned, io.ErrShortWrite for a sink that takes a part of
\* the bytes and reports no error
ioCopy(ans) ==
  IF ans.err /= "" THEN ans.err
  ELSE IF ~ans.all THEN "ErrShortWrite"
  ELSE ""

\* Write with p.mu.Unlock() called at the end of PrintTo instead of deferred
WriteUnlockNotDeferred ==
  /\ pc = "write"
  /\ IF label.kind = "other"
     THEN /\ pc' = "panic"
          /\ fatal' = "panic"
          /\ UNCHANGED <<out, sink, err>>
     ELSE \E ans \in SinkAnswers :
            /\ out' = Append(out, formatHeader \o buf \o <<Tok("\n", "nl", 0)>>)
            /\ sink' = ans
            /\ err' = ioCopy(ans)
            /\ pc' = "done"
            /\ UNCHANGED fatal
  /\ mu' = (label.kind = "other")
  /\ UNCHANGED <<config, buf, pointers, heap, root, visitedPointers, stack,
                 hookLoop, cmp, setterCalls, met, allocated, hookCalls,
                 decisions, label, str, op>>

\* the header, the buffer and the final newline put together and copied to
\* the sink, and the deferred Unlock; a label that does not start with a
\* string panics in formatHeader
Write ==
  /\ pc = "write"
  /\ IF label.kind = "other"
     THEN /\ pc' = "panic"
          /\ fatal' = "panic"
          /\ UNCHANGED <<out, sink, err>>
     ELSE \E ans \in SinkAnswers :
            /\ out' = Append(out, formatHeader \o buf \o <<Tok("\n", "nl", 0)>>)
            /\ sink' = ans
            /\ err' = ioCopy(ans)
            /\ pc' = "done"
            /\ UNCHANGED fatal
  /\ mu' = FALSE
  /\ UNCHANGED <<config, buf, pointers, heap, root, visitedPointers, stack,
                 hookLoop, cmp, setterCalls, met, allocated, hookCalls,
                 decisions, label, str, op>>

Next ==
  \/ SetFormatValueFunc
  \/ SetMaxInlineColumn
  \/ SetIndent
  \/ SetLinePrefix
  \/ SetPrintTypes
  \/ SetHidePrivateFields
  \/ SetThousandsSeparator
  \/ PrintTo
  \/ InitPointersStep
  \/ PrintValue
  \/ Write

Spec == Init /\ [][Next]_vars

(***************************************************************************)
(* One map printed twice by one printer, the runtime ranging over it in    *)
(* another order the second time.                                          *)
(***************************************************************************)
MapFamilies == {"bool", "int", "uint", "string", "ptr"}

MapKeysOf(family) ==
  CASE family = "bool" -> <<BoolN(FALSE), BoolN(TRUE)>>
    [] family = "int" -> <<IntN("int", -1), IntN("int", 2), IntN("int", 10)>>
    [] family = "uint" ->
         <<UintN("uint8", 1), UintN("uint8", 2), UintN("uint8", 3)>>
    [] family = "string" -> <<StrN("a"), StrN("b"), StrN("c")>>
    [] OTHER ->
         <<PtrN("*int", 101, 8), PtrN("*int", 102, 8), PtrN("*int", 103, 8)>>

\* the map of a family: node 1, then its keys, then the value of each key;
\* node 8 is what the pointer keys point to
MapInput(family) ==
  LET keys == MapKeysOf(family)
      n == Len(keys)
      pad == [i \in 1..(6 - 2 * n) |-> IntN("int", 0)]
  IN  [name |-> family, root |-> 1, heap |->
         << MapN("map[" \o keys[1].t \o "]int", 301,
                 [j \in 1..2 * n |->
                    IF j % 2 = 1 THEN 1 + (j + 1) \div 2 ELSE 1 + n + j \div 2]) >>
           \o keys \o [i \in 1..n |-> IntN("int", i)] \o pad
           \o << IntN("int", 42) >>]

MapInputs == {MapInput(family) : family \in MapFamilies}

RangeOrders(n) ==
  {p \in [1..n -> 1..n] : \A i, j \in 1..n : p[i] = p[j] => i = j}

\* the map of h ranged over in the order p
Reordered(h, p) ==
  LET kids == h[1].kids
  IN  [h EXCEPT ![1].kids =
         [j \in 1..Len(kids) |->
            IF j % 2 = 1 THEN kids[2 * p[(j + 1) \div 2] - 1]
            ELSE kids[2 * p[j \div 2]]]]

\* the setters run before the first render
Configure == pc = "idle" /\ (SetFormatValueFunc \/ SetMaxInlineColumn)

PrintToMap == pc = "idle" /\ PrintToOf(MapInputs, {NoLabel}) /\ UNCHANGED op

PrintToMapAgain ==
  /\ pc = "done"
  /\ Len(out) < 2
  /\ PrintToOf({[name |-> "again", root |-> root, heap |-> Reordered(heap, p)] :
                  p \in RangeOrders(Len(heap[1].kids) \div 2)}, {NoLabel})
  /\ UNCHANGED op

NextMap ==
  \/ Configure
  \/ PrintToMap
  \/ InitPointersStep
  \/ PrintValue
  \/ Write
  \/ PrintToMapAgain

SpecMap == Init /\ [][NextMap]_vars

(***************************************************************************)
(* A sequence of render calls on one printer.                              *)
(***************************************************************************)
MaxCalls == 2

\* type T struct{ LongFieldName string }; T{"0123456789"} passed by value
FieldInput ==
  [name |-> "field", root |-> 1, heap |-> <<
     StructN("main.T", <<"LongFieldName">>, {}, <<2>>),
     StrN("0123456789") >>]

\* n := 7; &T{P: &n, q: &n}: the pointer held by an exported and by a private
\* field
HiddenInput ==
  [name |-> "hidden", root |-> 1, heap |-> <<
     PtrN("*main.T", 101, 2),
     StructN("main.T", <<"P", "q">>, {2}, <<3, 3>>),
     PtrN("*int", 102, 4),
     IntN("int", 7) >>]

\* s := []int{1, 2, 3}; [][]int{s, s[:2]}: two slices of one backing array
AliasInput ==
  [name |-> "alias", root |-> 1, heap |-> <<
     SliceN("[][]int", 201, <<2, 3>>),
     SliceN("[]int", 202, <<4, 5, 6>>),
     SliceN("[]int", 202, <<4, 5>>),
     IntN("int", 1), IntN("int", 2), IntN("int", 3) >>]

\* t := T{A: 1}; []any{&t, &t.A}: a struct and its first field have one address
FirstFieldInput ==
  [name |-> "firstfield", root |-> 1, heap |-> <<
     SliceN("[]interface {}", 201, <<2, 3>>),
     IfaceN(4),
     IfaceN(5),
     PtrN("*main.T", 101, 6),
     PtrN("*int", 101, 7),
     StructN("main.T", <<"A">>, {}, <<7>>),
     IntN("int", 1) >>]

SeqInputs ==
  {SharedInput(2), PointInput, FieldInput, NilInput, HiddenInput, AliasInput,
   FirstFieldInput}

\* the setter calls made before the first render call
ConfigureSeq == Configure \/ (pc = "idle" /\ SetHidePrivateFields)

PrintToFirst ==
  /\ pc = "idle"
  /\ PrintToOf(SeqInputs, {NoLabel})
  /\ UNCHANGED op

\* a render call made after the return of another
PrintToNext ==
  /\ pc = "done"
  /\ Len(out) < MaxCalls
  /\ PrintToOf(SeqInputs, {NoLabel})
  /\ UNCHANGED op

NextSeq ==
  \/ ConfigureSeq
  \/ PrintToFirst
  \/ PrintToNext
  \/ InitPointersStep
  \/ PrintValue
  \/ Write

SpecSeq == Init /\ [][NextSeq]_vars

(***************************************************************************)
(* PrintTo and String of the version of the printer that has String: one   *)
(* value, label and configuration given to PrintTo and then to String.     *)
(* printValue stands for the renderer of that version; it sorts the keys   *)
(* of a map with the same compareMapKeys.                                  *)
(***************************************************************************)
StringInputs == {MapInput(family) : family \in {"bool", "int", "uint", "string"}}

StringLabels == {NoLabel, [kind |-> "string", format |-> "x"]}

\* PrintTo up to the first call of fn in initPointers
PrintToCall ==
  /\ pc = "idle"
  /\ PrintToOf(StringInputs, StringLabels)
  /\ op' = "PrintTo"

\* String, called with the value and the label PrintTo was called with, up to
\* the first call of fn in initPointers
String ==
  /\ pc = "done"
  /\ op = "PrintTo"
  /\ PrintToOf({[name |-> "again", root |-> root, heap |-> Reordered(heap, p)] :
                  p \in RangeOrders(Len(heap[1].kids) \div 2)}, {label})
  /\ op' = "String"

\* maybePrintLabel: the line of the label
maybePrintLabel(st) ==
  IF label.kind = "none" THEN st
  ELSE printNewline(Emit(printLineStart(st), Text(label.format) \o Text(":")))

\* printValueLine after maybePrintLabel
PrintValueLine ==
  /\ pc = "initPointers"
  /\ stack = <<>>
  /\ LET p == printNewline(printValue(printLineStart(maybePrintLabel(Printer0)),
                                      ValueOf(root)))
     IN  /\ buf' = p.buf
         /\ pointers' = p.pointers
         /\ hookCalls' = p.hookCalls
         /\ decisions' = p.decisions
         /\ fatal' = p.fatal
         /\ pc' = CASE p.fatal = "" -> "write"
                    [] p.fatal = "overflow" -> "overflow"
                    [] p.fatal = "panic" -> "panic"
                    [] OTHER -> "hang"
         /\ mu' = (p.fatal /= "panic")
  /\ UNCHANGED <<config, heap, root, visitedPointers, stack, out, hookLoop,
                 cmp, setterCalls, met, allocated, call>>

\* the end of PrintTo, w.Write(p.buf), and of String, string(p.buf), and the
\* deferred Unlock
Return ==
  /\ pc = "write"
  /\ IF op = "PrintTo"
     THEN /\ \E ans \in SinkAnswers :
               /\ out' = Append(out, buf)
               /\ sink' = ans
               /\ err' = ans.err
          /\ UNCHANGED str
     ELSE /\ str' = buf
          /\ UNCHANGED <<out, sink, err>>
  /\ mu' = FALSE
  /\ pc' = "done"
  /\ UNCHANGED <<config, buf, pointers, heap, root, visitedPointers, stack,
                 hookLoop, cmp, setterCalls, met, allocated, hookCalls,
                 decisions, fatal, label, op>>

NextString ==
  \/ Configure
  \/ PrintToCall
  \/ String
  \/ InitPointersStep
  \/ PrintValueLine
  \/ Return

SpecString == Init /\ [][NextString]_vars

(***************************************************************************)
(* compareMapKeys on two keys of one type.                                 *)
(***************************************************************************)
MaxKey == 2

UintTypes == {"uint", "uint8", "uint16", "uint32", "uint64"}

KeyPairs ==
  {<<BoolN(a), BoolN(b)>> : a, b \in BOOLEAN}
    \cup {<<IntN("int", a), IntN("int", b)>> : a, b \in -MaxKey..MaxKey}
    \cup UNION {{<<UintN(t, a), UintN(t, b)>> : a, b \in 0..MaxKey} :
                  t \in UintTypes}
    \cup {<<[Node("uintptr", "uintptr") EXCEPT !.n = a],
            [Node("uintptr", "uintptr") EXCEPT !.n = b]>> : a, b \in 0..MaxKey}
    \cup {<<StrN(a), StrN(b)>> : a, b \in {"", "a", "ab", "b"}}

InitCmp ==
  \E keys \in KeyPairs :
    /\ heap = keys
    /\ pc = "compareMapKeys"
    /\ root = 0
    /\ formatValue = ""
    /\ maxInlineColumn = 0
    /\ indent = ""
    /\ linePrefix = ""
    /\ printTypes = ""
    /\ hidePrivateFields = FALSE
    /\ thousandsSeparator = ""
    /\ buf = <<>>
    /\ pointers = <<>>
    /\ mu = FALSE
    /\ visitedPointers = {}
    /\ stack = <<>>
    /\ out = <<>>
    /\ hv = ValueOf(0)
    /\ hprintType = FALSE
    /\ hres = HookNil
    /\ hcalled = FALSE
    /\ harg = 0
    /\ hiter = 0
    /\ cmp = 0
    /\ nbSetterCalls = 0
    /\ lastSep = "unset"
    /\ label = NoLabel
    /\ sink = Accepted
    /\ err = ""
    /\ str = <<>>
    /\ op = "PrintTo"
    /\ met = <<>>
    /\ allocated = <<>>
    /\ hookCalls = {}
    /\ decisions = {}
    /\ fatal = ""

CompareMapKeys ==
  /\ pc = "compareMapKeys"
  /\ cmp' = compareMapKeys(heap[1], heap[2])
  /\ pc' = "compared"
  /\ UNCHANGED <<config, buf, pointers, mu, heap, root, visitedPointers, stack,
                 out, hookLoop, setterCalls, met, allocated, hookCalls,
                 decisions, fatal, call>>

NextCmp == CompareMapKeys

SpecCmp == InitCmp /\ [][NextCmp]_vars

(***************************************************************************)
(* The hook loop of printValue, one iteration per step, on the value       *)
(* passed to Print: the printer is at the call of printTypeForValue.       *)
(***************************************************************************)
\* 42 passed by value
IntInput == [name |-> "int", root |-> 1, heap |-> << IntN("int", 42) >>]

HookInputs ==
  {PointInput, PtrPtrInput, IfacePtrInput, IdInput, AtomicInput, DurationInput,
   PrivateInput, StringInput, IntInput, NilInput, AtomicPointerInput(0),
   AtomicPointerInput(102)}

InitHook ==
  \E in \in HookInputs, fn \in UserHooks \cup {"FormatValue"},
     types \in {PrintTypesDefault, PrintTypesAlways, PrintTypesNever} :
    /\ heap = in.heap
    /\ root = in.root
    /\ formatValue = fn
    /\ maxInlineColumn = DefaultMaxInlineColumn
    /\ indent = DefaultIndent
    /\ linePrefix = ""
    /\ printTypes = types
    /\ hidePrivateFields = FALSE
    /\ thousandsSeparator = DefaultThousandsSeparator
    /\ buf = <<>>
    /\ pointers = <<>>
    /\ mu = TRUE
    /\ pc = "formatLoop"
    /\ visitedPointers = {}
    /\ stack = <<>>
    /\ out = <<>>
    /\ hv = ValueOf(in.root)
    /\ hprintType = printTypeForValue(ValueOf(in.root))
    /\ hres = HookNil
    /\ hcalled = FALSE
    /\ harg = 0
    /\ hiter = 0
    /\ cmp = 0
    /\ nbSetterCalls = 0
    /\ lastSep = "unset"
    /\ label = NoLabel
    /\ sink = Accepted
    /\ err = ""
    /\ str = <<>>
    /\ op = "PrintTo"
    /\ met = <<>>
    /\ allocated = <<>>
    /\ hookCalls = {}
    /\ decisions = {}
    /\ fatal = ""

\* the printer running the loop: the clone of the inline trial when the value
\* is inlinable
HookPrinter ==
  [buf |-> <<>>, level |-> 0,
   inline |-> inlinableValue(ValueOf(root)) = "yes", pointers |-> pointers,
   hookCalls |-> {}, decisions |-> {}, calls |-> 0, fatal |-> ""]

\* one evaluation of the loop condition and, when it holds, one iteration
FormatLoopStep ==
  /\ pc = "formatLoop"
  /\ hiter' = IF hiter < MaxHookIter THEN hiter + 1 ELSE hiter
  /\ IF Kind(hv.id) = "invalid" \/ ~CanInterface(hv)
     THEN /\ pc' = "printTyped"
          /\ hcalled' = FALSE
          /\ UNCHANGED <<hv, hprintType, hres, harg, buf, fatal, mu>>
     ELSE LET step == formatStep(hv)
              r == step.vs.r
          IN  /\ hcalled' = step.called
              /\ harg' = IF step.called THEN step.arg.id ELSE harg
              /\ hres' = step.vs
              /\ hv' = IF r = "val" THEN ValueOf(step.vs.v) ELSE hv
              /\ hprintType' = (hprintType \/ r = "val")
              /\ pc' = CASE r = "val" -> "formatLoop"
                         [] r = "nil" -> "printTyped"
                         [] r = "raw" -> "returned"
                         [] OTHER -> "panic"
              /\ buf' = IF r = "raw"
                        THEN printRawString(HookPrinter, hv, step.vs.s).buf
                        ELSE buf
              /\ fatal' = IF r = "panic" THEN "panic" ELSE fatal
              /\ mu' = (r /= "panic")
  /\ UNCHANGED <<config, pointers, heap, root, visitedPointers, stack, out, cmp,
                 setterCalls, met, allocated, hookCalls, decisions, call>>

\* printValue from the end of the loop to its return
PrintTypedStep ==
  /\ pc = "printTyped"
  /\ LET p == printTyped(HookPrinter, hv, hprintType)
     IN  /\ buf' = p.buf
         /\ pointers' = p.pointers
         /\ hookCalls' = p.hookCalls
         /\ fatal' = p.fatal
         /\ pc' = IF p.fatal = "" THEN "returned" ELSE p.fatal
         /\ mu' = (p.fatal /= "panic")
  /\ UNCHANGED <<config, heap, root, visitedPointers, stack, out, hookLoop, cmp,
                 setterCalls, met, allocated, decisions, call>>

NextHook == FormatLoopStep \/ PrintTypedStep

SpecHook == InitHook /\ [][NextHook]_vars

(***************************************************************************)
(* addThousandsSeparator on the decimal text of an integer, by a printer   *)
(* whose separator reset or a setter has made non-zero.                    *)
(***************************************************************************)
MaxInt == 1200

InitSep ==
  \E n \in -MaxInt..MaxInt, sep \in {DefaultThousandsSeparator, ","} :
    /\ heap = << IntN("int", n) >>
    /\ root = 1
    /\ pc = "addThousandsSeparator"
    /\ thousandsSeparator = sep
    /\ formatValue = ""
    /\ maxInlineColumn = 0
    /\ indent = ""
    /\ linePrefix = ""
    /\ printTypes = ""
    /\ hidePrivateFields = FALSE
    /\ buf = <<>>
    /\ pointers = <<>>
    /\ mu = TRUE
    /\ visitedPointers = {}
    /\ stack = <<>>
    /\ out = <<>>
    /\ hv = ValueOf(0)
    /\ hprintType = FALSE
    /\ hres = HookNil
    /\ hcalled = FALSE
    /\ harg = 0
    /\ hiter = 0
    /\ cmp = 0
    /\ nbSetterCalls = 0
    /\ lastSep = "unset"
    /\ label = NoLabel
    /\ sink = Accepted
    /\ err = ""
    /\ str = <<>>
    /\ op = "PrintTo"
    /\ met = <<>>
    /\ allocated = <<>>
    /\ hookCalls = {}
    /\ decisions = {}
    /\ fatal = ""

\* p.printString(p.addThousandsSeparator(s)) of printIntegerValue, s the
\* decimal text of the integer
AddThousandsSeparator ==
  /\ pc = "addThousandsSeparator"
  /\ buf' = Text(addThousandsSeparator(ToString(heap[root].n)))
  /\ pc' = "separated"
  /\ UNCHANGED <<config, pointers, mu, heap, root, visitedPointers, stack,
                 out, hookLoop, cmp, setterCalls, met, allocated, hookCalls,
                 decisions, fatal, call>>

NextSep == AddThousandsSeparator

SpecSep == InitSep /\ [][NextSep]_vars

(***************************************************************************)
(* Render calls with labels made one after another, a call that panicked   *)
(* in formatHeader included, and SetThousandsSeparator between them.  The  *)
(* values are handed over as pointers, which the default hook accepts.     *)
(***************************************************************************)
LabelInputs == {PrivateInput, PtrPtrInput, BigIntInput}

PrintToLabel ==
  /\ pc = "idle"
  /\ PrintToOf(LabelInputs, Labels)
  /\ UNCHANGED op

\* a render call made after the return or the panic of another
PrintToAfter ==
  /\ pc \in {"done", "panic"}
  /\ Len(out) < MaxCalls
  /\ PrintToOf(LabelInputs, Labels)
  /\ UNCHANGED op

NextLabel ==
  \/ SetThousandsSeparator
  \/ PrintToLabel
  \/ PrintToAfter
  \/ InitPointersStep
  \/ PrintValue
  \/ Write

SpecLabel == Init /\ [][NextLabel]_vars

(***************************************************************************)
(* The single-pass printer: pointers are numbered when they are first      *)
(* printed, and the annotation `#N=` is spliced into the buffer when the   *)
(* pointer is met again.  Offsets into the buffer matter here, so the      *)
(* buffer holds one token per byte.  A pointerRef is [n, idx, annotated].  *)
(***************************************************************************)
\* number of distinct *int held by the slice handed to the printer
MaxPointees == 3
\* number of elements of that slice
MaxElems == 4

\* ps := []*int{&1, &2, ...}; []*int{ps[q[1]], ps[q[2]], ...}
SpliceInput(q) ==
  [name |-> "splice", root |-> 1, heap |->
     << SliceN("[]*int", 201, [i \in 1..Len(q) |-> 1 + q[i]]) >>
     \o [j \in 1..MaxPointees |-> PtrN("*int", 100 + j, 1 + MaxPointees + j)]
     \o [j \in 1..MaxPointees |-> IntN("int", j)]]

SpliceInputs ==
  {SpliceInput(q) : q \in UNION {[1..n -> 1..MaxPointees] : n \in 1..MaxElems}}

\* the bytes of s; the first one carries the tag, all of them the key
Bytes(s, tag, key) ==
  [i \in 1..Len(s) |->
     Tok(SubSeq(s, i, i), IF i = 1 \/ tag = "def" THEN tag ELSE "text", key)]

printString(st, s) == Emit(st, Bytes(s, "text", 0))

storePointer(st, ptr) ==
  LET ref == [n |-> Cardinality(DOMAIN st.pointers) + 1, idx |-> Len(st.buf),
              annotated |-> FALSE]
  IN  [st EXCEPT !.pointers =
         [k \in DOMAIN @ \cup {ptr} |-> IF k = ptr THEN ref ELSE @[k]]]

annotatePointer(st, ptr) ==
  LET ref == st.pointers[ptr]
      before == SubSeq(st.buf, 1, ref.idx)
      after == SubSeq(st.buf, ref.idx + 1, Len(st.buf))
      s == "#" \o ToString(ref.n) \o "="
  IN  IF ~ref.annotated
      THEN [st EXCEPT !.buf = before \o Bytes(s, "def", ptr) \o after,
                      !.pointers[ptr].annotated = TRUE]
      ELSE st

\* the printer after the call, and the value it returns
checkPointer(st, ptr) ==
  IF ptr \in DOMAIN st.pointers
  THEN [p |-> Emit(annotatePointer(st, ptr),
                   Bytes("#" \o ToString(st.pointers[ptr].n) \o "#", "ref", ptr)),
        ok |-> FALSE]
  ELSE [p |-> storePointer(st, ptr), ok |-> TRUE]

\* printLineStart of the single-pass printer
printLineStartBytes(st) ==
  printString(st, linePrefix \o Join([i \in 1..st.level |-> indent]))

RECURSIVE printValueSplice(_, _)
RECURSIVE printElementsSplice(_, _, _)

\* printIntegerValue of the single-pass printer
printIntegerValueSplice(st, id) ==
  LET s == ToString(heap[id].n)
  IN  IF printTypes = PrintTypesAlways
      THEN printString(st, heap[id].t \o "(" \o s \o ")")
      ELSE printString(st, s)

\* the value that follows a successful checkPointer: its first byte is
\* where the first rendering of the pointer starts
printPointee(st, id) ==
  LET p0 == IF printTypes /= PrintTypesNever
            THEN Emit(st, Bytes("&", "start", heap[id].a))
            ELSE st
  IN  printValueSplice(p0, heap[id].kids[1])

\* printPointerValue of the single-pass printer
printPointerValueSplice(st, id) ==
  IF heap[id].a = 0
  THEN IF printTypes /= PrintTypesNever
       THEN printString(st, heap[id].t \o "(nil)")
       ELSE printString(st, "nil")
  ELSE IF checkPointer(st, heap[id].a).ok
       THEN printPointee(checkPointer(st, heap[id].a).p, id)
       ELSE checkPointer(st, heap[id].a).p

\* the loop of printSequenceValue from element i on
printElementsSplice(st, id, i) ==
  IF i > Len(heap[id].kids) THEN st
  ELSE printElementsSplice(
         printString(
           printValueSplice(printLineStartBytes(st), heap[id].kids[i]),
           "," \o "\n"),
         id, i + 1)

\* printSequenceValue of the single-pass printer
printSequenceValueSplice(st, id) ==
  IF heap[id].k = "slice" /\ heap[id].a = 0
  THEN IF printTypes /= PrintTypesNever
       THEN printString(st, heap[id].t \o "(nil)")
       ELSE printString(st, "nil")
  ELSE IF heap[id].k = "slice" /\ ~checkPointer(st, heap[id].a).ok
       THEN checkPointer(st, heap[id].a).p
       ELSE LET p0 == IF heap[id].k = "slice"
                      THEN checkPointer(st, heap[id].a).p ELSE st
                p1 == IF printTypes /= PrintTypesNever
                      THEN printString(p0, heap[id].t) ELSE p0
                p2 == printElementsSplice(
                        [printString(p1, "[" \o "\n") EXCEPT !.level = @ + 1],
                        id, 1)
            IN  printString(printLineStartBytes([p2 EXCEPT !.level = @ - 1]),
                            "]")

printValueSplice(st, id) ==
  CASE heap[id].k = "int" -> printIntegerValueSplice(st, id)
    [] heap[id].k = "slice" -> printSequenceValueSplice(st, id)
    [] heap[id].k = "ptr" -> printPointerValueSplice(st, id)

InitSplice ==
  \E in \in SpliceInputs,
     types \in {PrintTypesDefault, PrintTypesAlways} :
    /\ heap = in.heap
    /\ root = in.root
    /\ pc = "idle"
    /\ thousandsSeparator = ""
    /\ formatValue = ""
    /\ maxInlineColumn = 0
    /\ indent = DefaultIndent
    /\ linePrefix = ""
    /\ printTypes = types
    /\ hidePrivateFields = FALSE
    /\ buf = <<>>
    /\ pointers = <<>>
    /\ mu = FALSE
    /\ visitedPointers = {}
    /\ stack = <<>>
    /\ out = <<>>
    /\ hv = ValueOf(0)
    /\ hprintType = FALSE
    /\ hres = HookNil
    /\ hcalled = FALSE
    /\ harg = 0
    /\ hiter = 0
    /\ cmp = 0
    /\ nbSetterCalls = 0
    /\ lastSep = "unset"
    /\ label = NoLabel
    /\ sink = Accepted
    /\ err = ""
    /\ str = <<>>
    /\ op = "PrintTo"
    /\ met = <<>>
    /\ allocated = <<>>
    /\ hookCalls = {}
    /\ decisions = {}
    /\ fatal = ""

\* PrintTo of the single-pass printer: reset, printValueLine, w.Write
PrintToSplice ==
  /\ pc = "idle"
  /\ LET p0 == [buf |-> <<>>, level |-> 0, pointers |-> <<>>]
         p1 == printString(printValueSplice(printLineStartBytes(p0), root),
                           "\n")
     IN  /\ buf' = p1.buf
         /\ pointers' = p1.pointers
         /\ out' = Append(out, p1.buf)
  /\ pc' = "done"
  /\ UNCHANGED <<config, mu, heap, root, visitedPointers, stack, hookLoop,
                 cmp, setterCalls, met, allocated, hookCalls, decisions,
                 fatal, call>>

NextSplice == PrintToSplice

SpecSplice == InitSplice /\ [][NextSplice]_vars

(***************************************************************************)
(* Properties.                                                             *)
(***************************************************************************)
\* the number of tokens of toks with the given tag and key
CountTag(toks, tag, key) ==
  Cardinality({i \in 1..Len(toks) : toks[i].tag = tag /\ toks[i].key = key})

\* C1: a render call terminates for every cyclic value: none of its
\* recursions goes on until the stack is exhausted.
C1_RenderTerminates == pc /= "overflow"

\* C2: in the output of a render every key flagged as shared is expanded
\* exactly once, at its one #N= annotation; all its other occurrences are
\* backreferences #N#.
C2_SharedExpandedOnce ==
  pc = "done" =>
    \A k \in DOMAIN pointers :
      /\ CountTag(out[Len(out)], "def", k) = 1
      /\ CountTag(out[Len(out)], "open", k) = 1

\* C3: the output of a map does not depend on the order in which the runtime
\* ranges over it: two renders of one map write the same bytes.
C3_MapOrderIndependent == Len(out) = 2 => out[1] = out[2]

\* byte-wise s1 < s2
StringLess(s1, s2) ==
  \E i \in 1..Len(s2) :
    /\ Len(s1) >= i - 1
    /\ SubSeq(s1, 1, i - 1) = SubSeq(s2, 1, i - 1)
    /\ \/ Len(s1) = i - 1
       \/ Ord(SubSeq(s1, i, i)) < Ord(SubSeq(s2, i, i))

KeyLess(n1, n2) ==
  IF n1.k = "string" THEN StringLess(n1.s, n2.s) ELSE n1.n < n2.n

\* C4: on two booleans, two signed integers, two unsigned integers of one
\* width or two strings compareMapKeys is negative, zero or positive as the
\* first key is below, equal to or above the second.
C4_CompareMapKeysOrder ==
  (pc = "compared" /\ heap[1].k \in {"bool", "int", "uint", "string"}) =>
    /\ cmp < 0 <=> KeyLess(heap[1], heap[2])
    /\ cmp > 0 <=> KeyLess(heap[2], heap[1])
    /\ cmp = 0 <=> heap[1] = heap[2]

\* the keys initPointers met more than once
MetTwice ==
  {met[i] : i \in {i \in 1..Len(met) : \E j \in 1..i - 1 : met[j] = met[i]}}

\* C5: the pre-pass creates at most one PointerRef per key, and when it ends
\* there are as many PointerRefs as keys met more than once.
C5_OnePointerRefPerKey ==
  /\ \A k \in DOMAIN allocated : allocated[k] <= 1
  /\ (pc = "initPointers" /\ stack = <<>> /\ root /= 0) =>
       Cardinality(DOMAIN pointers) = Cardinality(MetTwice)

FirstVisit(k) == CHOOSE i \in 1..Len(met) : met[i] = k /\ \A j \in 1..i - 1 : met[j] /= k

\* C6: sequence numbers start at 1, follow the order in which the keys were
\* first visited, and the number of a key never changes during a render.
C6_SequenceNumbers ==
  /\ [](\A k \in DOMAIN pointers : pointers[k].n >= 1)
  /\ [](\A k1, k2 \in DOMAIN pointers :
          FirstVisit(k1) < FirstVisit(k2) => pointers[k1].n < pointers[k2].n)
  /\ [][pc = "initPointers" =>
          \A k \in DOMAIN pointers :
            k \in DOMAIN pointers' /\ pointers'[k].n = pointers[k].n]_vars

\* the column budget of an inline trial, under the configuration of the
\* render that holds the lock
Budget(d) == maxInlineColumn - Len(linePrefix) - d.level * Len(indent)

HasNewline(toks) == \E i \in 1..Len(toks) : toks[i].tag = "nl"

\* C7: an inline trial is committed exactly when its width is at most
\* maxInlineColumn - len(linePrefix) - level * len(indent); a struct, slice or
\* map passed to Print is written on one line exactly when its trial was
\* committed.
C7_InlineBoundary ==
  /\ mu => \A d \in decisions : d.inlined <=> d.width <= Budget(d)
  /\ (pc = "write" /\ formatValue = "NoOverride") =>
       \A d \in decisions :
         (d.level = 0 /\ Kind(d.id) \in {"struct", "slice", "map"}
            /\ heap[d.id].kids /= <<>>)
           => (d.inlined <=> ~HasNewline(buf))

\* a trial that measures the budget exactly was committed and a trial one
\* character longer was discarded
C7_Witness ==
  /\ pc = "write"
  /\ \E d \in decisions : d.inlined /\ d.width = Budget(d)
  /\ \E d \in decisions : ~d.inlined /\ d.width = Budget(d) + 1

\* C8: a render under PrintTypesNever writes no type.
C8_NeverPrintsNoType ==
  (mu /\ printTypes = PrintTypesNever) =>
    \A i \in 1..Len(buf) : buf[i].tag /= "type"

\* C9: the format hook is never called on a pointer or an interface.
C9_HookOnlyOnValues ==
  \A id \in hookCalls : Kind(id) \notin {"ptr", "iface"}

\* the text of a RawString as the printer writes it
RawText(s) ==
  IF printTypes = PrintTypesNever THEN <<Tok(s, "raw", 0)>>
  ELSE <<Tok(valueTypeString(hv), "type", 0), Tok("(", "text", 0),
         Tok(s, "raw", 0), Tok(")", "text", 0)>>

\* how the loop goes on from the answer the hook has just given
AfterAnswer ==
  /\ hres'.r = "nil" => pc' = "printTyped" /\ hv' = hv
  /\ hres'.r = "raw" => pc' = "returned" /\ buf' = RawText(hres'.s)
  /\ hres'.r = "val" => pc' = "formatLoop" /\ hv' = ValueOf(hres'.v)
  /\ hres'.r = "panic" => pc' = "panic"
  /\ pc' \in {"printTyped", "returned"} => hres'.r \in {"nil", "raw"}

\* C10 as stated: after an answer that is neither nil nor a RawString the
\* hook is called again on the value it returned, and the loop ends exactly
\* when it answers nil or a RawString.
C10_HookCalledOnReturnedValue ==
  [][(pc = "formatLoop" /\ hres.r = "val") =>
       (hcalled' /\ harg' = hres.v /\ AfterAnswer)]_vars

\* C10 amended: every answer of the hook is followed as above, and after an
\* answer that is neither nil nor a RawString the loop runs again on the
\* returned value: the hook is called on the value, on its pointee if the
\* value is a non-nil pointer, and not at all if it is a nil pointer, which
\* ends the loop as an answer of nil does.  A hook that panics ends the call.
C10_HookLoop ==
  [][pc = "formatLoop" =>
       /\ hcalled' => AfterAnswer
       /\ hres.r = "val" =>
            IF Kind(hres.v) = "ptr" /\ heap[hres.v].a = 0
            THEN ~hcalled' /\ pc' = "printTyped" /\ hv' = hv
            ELSE /\ hcalled'
                 /\ harg' = IF Kind(hres.v) = "ptr" THEN heap[hres.v].kids[1]
                            ELSE hres.v]_vars

\* the hook answered a value, was called again and answered nil, and the
\* value was printed
C10_Witness ==
  /\ pc = "returned"
  /\ formatValue = "Stringer"
  /\ hiter = 2
  /\ hcalled
  /\ hres.r = "nil"
  /\ Kind(hv.id) = "string"

\* the text s holds the rune c
Contains(s, c) == \E i \in 1..Len(s) : SubSeq(s, i, i) = c

\* the render in flight is of a pointer to an int
IntegerRoot ==
  /\ root /= 0
  /\ Kind(root) = "ptr"
  /\ heap[root].kids /= <<>>
  /\ heap[heap[root].kids[1]].t = "int"

\* C11: a render made after SetThousandsSeparator(0) prints an integer as
\* its plain decimal digits, without grouping; a render made after
\* SetThousandsSeparator of another rune prints that rune in the integer.
C11_ZeroDisablesGrouping ==
  [][(pc = "initPointers" /\ pc' = "write" /\ IntegerRoot)
       => /\ lastSep = ""
               => \E i \in 1..Len(buf') :
                    buf'[i].s = ToString(heap[heap[root].kids[1]].n)
          /\ lastSep \notin {"", "unset"}
               => /\ thousandsSeparator = lastSep
                  /\ \E i \in 1..Len(buf') : Contains(buf'[i].s, lastSep)]_vars

\* the sink kept to the contract of io.Writer: it reports an error whenever
\* it does not take all the bytes
KeepsContract(ans) == ans.all \/ ans.err /= ""

LabelAt(bytes) ==
  CHOOSE i \in 1..Len(bytes) :
    /\ bytes[i].s = "[" \o label.format \o "]"
    /\ \A j \in 1..i - 1 : bytes[j].s /= bytes[i].s

\* C13: the label of a render is followed by a newline, the value starting
\* on the next line, exactly when the rendered value holds a newline; it is
\* followed by one space and the value on the same line otherwise.
C13_LabelOwnLine ==
  (pc = "done" /\ label.kind = "string")
    => LET bytes == out[Len(out)]
           i == LabelAt(bytes)
           n == Len(bytes)
       IN  /\ i <= 2
           /\ SubSeq(bytes, n - Len(buf), n) = buf \o <<Tok("\n", "nl", 0)>>
           /\ IF HasNewline(buf)
              THEN /\ bytes[i + 1].tag = "nl"
                   /\ n - Len(buf) - 1 \in {i + 1, i + 2}
              ELSE /\ bytes[i + 1].s = " "
                   /\ n - Len(buf) - 1 = i + 1

\* a labelled render of a value of several lines, the label on its own line
C13_Witness ==
  /\ pc = "done"
  /\ label.kind = "string"
  /\ HasNewline(buf)
  /\ out[1][LabelAt(out[1]) + 1].tag = "nl"

\* C14: a render holds the lock from its reset of the configuration to its
\* write to the sink; no setter runs while the lock is held, so no setting
\* changes during a render, and a setter called meanwhile acts after the
\* write.
C14_MutualExclusion ==
  [][/\ pc \in {"initPointers", "write"} => mu
     /\ mu => config' = config
     /\ nbSetterCalls' /= nbSetterCalls => ~mu /\ ~mu'
     /\ out' /= out => mu /\ ~mu'
     /\ (~mu /\ mu') => pc' = "initPointers"]_vars

\* a setter that ran after the write of a render: reset had replaced the zero
\* separator, SetThousandsSeparator(0) stored it again
C14_Witness ==
  /\ pc = "done"
  /\ Len(out) = 1
  /\ ~mu
  /\ lastSep = ""
  /\ thousandsSeparator = ""

\* C15: String returns the bytes that PrintTo, called with the same value,
\* label and configuration, handed to its sink.
C15_StringIsPrintTo ==
  (pc = "done" /\ op = "String" /\ Len(out) = 1) => str = out[1]

\* a scalar: a value of an atomic kind, or a pointer or interface leading to
\* one
Scalar(id) == id /= 0 /\ atomicValue(ValueOf(id), 1) = "yes"

\* a sequence, map or struct with an immediate child (element, key, value or
\* field) that is no scalar
NestedContainer(id) ==
  /\ id /= 0
  /\ Kind(id) \in {"array", "slice", "map", "struct"}
  /\ \E i \in 1..Len(heap[id].kids) : ~Scalar(heap[id].kids[i])

\* C16: an inline trial is made only of a scalar or of a sequence, map or
\* struct whose elements, keys, values and fields are all scalars; a container
\* passed to Print that has a container among them is written on several
\* lines.
C16_InlineOnlyScalarChildren ==
  /\ \A d \in decisions : ~NestedContainer(d.id)
  /\ (pc = "write" /\ NestedContainer(root)) => HasNewline(buf)

\* C17: no inline trial is started by a printer that is itself running a
\* trial, and one call of printValue starts at most one trial.
C17_NoNestedTrial ==
  /\ \A d \in decisions : ~d.nested
  /\ \A d, e \in decisions : d.call = e.call => d = e

\* a render whose trial of a container was discarded, its children then
\* trial-rendered one level down
C17_Witness ==
  /\ pc = "write"
  /\ \E d, e \in decisions :
       /\ ~d.inlined
       /\ Kind(d.id) \in {"slice", "struct", "map"}
       /\ e.level = d.level + 1
       /\ e.inlined
       /\ e.call > d.call

\* the value passed to Print is a non-nil pointer to a pointer or to an
\* interface
PointerToPointerRoot ==
  /\ root /= 0
  /\ Kind(root) = "ptr"
  /\ ~IsNil(root)
  /\ Kind(Elem(ValueOf(root)).id) \in {"ptr", "iface"}

\* C18 as stated: a non-nil pointer to a pointer or to an interface is
\* written with its type under every policy, PrintTypesNever included.
C18_PointerToPointerAlwaysTyped ==
  (pc = "write" /\ PointerToPointerRoot)
    => /\ buf /= <<>>
       /\ buf[1].tag = "type"
       /\ buf[1].s = valueTypeString(ValueOf(root))

\* C18: a non-nil pointer to a pointer or to an interface that the format
\* hook does not replace is written with its type under PrintTypesDefault and
\* PrintTypesAlways, and without type under PrintTypesNever.
C18_PointerToPointerTyped ==
  (pc = "write" /\ PointerToPointerRoot
     /\ CallHook(Elem(ValueOf(root))).r = "nil")
    => /\ buf /= <<>>
       /\ buf[1].tag = "type" <=> printTypes /= PrintTypesNever
       /\ buf[1].tag = "type" => buf[1].s = valueTypeString(ValueOf(root))

\* a pointer to a pointer written under PrintTypesNever, without its type
C18_Witness ==
  /\ pc = "write"
  /\ PointerToPointerRoot
  /\ CallHook(Elem(ValueOf(root))).r = "nil"
  /\ printTypes = PrintTypesNever
  /\ buf /= <<>>
  /\ buf[1].tag /= "type"

\* C19: the render of the nil interface value writes nil and returns, under
\* PrintTypesDefault, PrintTypesAlways and PrintTypesNever alike.
C19_NilRenders ==
  (root = 0 /\ label.kind /= "other"
     /\ pc \in {"write", "overflow", "panic", "hang"})
    => /\ pc = "write"
       /\ \E i \in 1..Len(buf) : buf[i].s = "nil"

RECURSIVE Grouped(_, _)
\* the digits with sep between the groups of three counted from the right
Grouped(digits, sep) ==
  IF Len(digits) <= 3 THEN digits
  ELSE Grouped(SubSeq(digits, 1, Len(digits) - 3), sep) \o sep
         \o SubSeq(digits, Len(digits) - 2, Len(digits))

\* C20: addThousandsSeparator returns the sign, if any, then the digits with
\* one separator between the groups of three digits counted from the right,
\* and nothing else.
C20_SeparatorsBetweenGroups ==
  pc = "separated"
    => LET n == heap[root].n
       IN  buf = Text(IF n < 0
                      THEN "-" \o Grouped(ToString(-n), thousandsSeparator)
                      ELSE Grouped(ToString(n), thousandsSeparator))

\* C21: when a render call starts to print its value the buffer is empty and
\* the pointer table holds nothing but unprinted entries for addresses found
\* in the value of that call.
C21_FreshPerCall ==
  (pc = "initPointers" /\ stack = <<>>)
    => /\ buf = <<>>
       /\ \A k \in DOMAIN pointers :
            /\ ~pointers[k].printed
            /\ \E i \in DOMAIN heap : heap[i].a = k

\* C22: a value committed in inline form ends at or before column
\* maxInlineColumn of its line, the line prefix, the indentation and the field
\* name or map key before it counted.
C22_InlineWithinColumn ==
  mu => \A d \in decisions :
          d.inlined => d.column + d.width <= maxInlineColumn

\* C23: in the single-pass printer, every pointer that was met again has its
\* `#N=` immediately before the first byte of its first rendering in the
\* buffer handed to the writer.
C23_SpliceBeforeFirstRendering ==
  pc = "done" =>
    \A key \in DOMAIN pointers :
      pointers[key].annotated =>
        \E i \in 1..Len(buf) :
          /\ buf[i].tag = "start" /\ buf[i].key = key
          /\ i > Len("#" \o ToString(pointers[key].n) \o "=")
          /\ \A j \in 1..Len("#" \o ToString(pointers[key].n) \o "=") :
                buf[i - j].tag = "def" /\ buf[i - j].key = key

\* C24: within one render two distinct keys never carry the same sequence
\* number, so that no `#N#` of the rendered text can designate two `#N=`
\* (that it designates one is the statement of C2).
C24_DistinctSequenceNumbers ==
  /\ \A k1, k2 \in DOMAIN pointers :
       k1 /= k2 => pointers[k1].n /= pointers[k2].n
  /\ pc = "write" =>
       \A i \in 1..Len(buf) :
         buf[i].tag = "ref" =>
           Cardinality({j \in 1..Len(buf) :
                          /\ buf[j].tag = "def"
                          /\ buf[j].s = "#" \o ToString(pointers[buf[i].key].n) \o "="})
             <= 1

\* C25: a discarded inline trial leaves the printed flag of every pointerRef
\* as it was before the trial.
C25_DiscardedTrialKeepsFlags ==
  \A d \in decisions : ~d.inlined => d.flagged = {}

\* C28: in the inline form the children are separated by `, `: every comma is
\* followed by a space and another child, and the closing bracket follows the
\* last rendered child with no separator in between, whether or not private
\* fields are hidden.
C28_NoTrailingSeparator ==
  pc = "write" =>
    \A i \in 1..Len(buf) - 1 :
      (buf[i].s = "," /\ buf[i + 1].tag /= "nl") =>
        /\ buf[i + 1].s = " "
        /\ i + 2 <= Len(buf)
        /\ buf[i + 2].s \notin {"}", "]"}

\* C26: every `#N=` of the rendered text is matched by at least one `#N#` of
\* the same key, also when private fields are hidden.
C26_AnnotationHasReference ==
  pc = "write" =>
    \A i \in 1..Len(buf) :
      buf[i].tag = "def" => CountTag(buf, "ref", buf[i].key) >= 1

\* the values of the input that v.Pointer() maps to key k
Designated(k) ==
  {i \in DOMAIN heap : Kind(i) \in {"ptr", "slice", "map"} /\ heap[i].a = k}

\* C27: `#N#` is printed only for the very object printed at `#N=`: the
\* values rendered under the key of a `#N#` have one type, one length and the
\* same elements.
C27_ReferenceIsSameObject ==
  pc = "write" =>
    \A n \in 1..Len(buf) :
      buf[n].tag = "ref" =>
        \A i, j \in Designated(buf[n].key) :
          heap[i].t = heap[j].t /\ heap[i].kids = heap[j].kids

\* C29: with the default hook FormatValue the rendering of a value, whether
\* it is addressable or not, does not end in a panic (the stack exhaustion
\* of C1 and the nil value of C19 aside).
C29_DefaultHookNoPanic ==
  [][(pc = "initPointers" /\ stack = <<>> /\ formatValue = "FormatValue"
        /\ root /= 0)
       => pc' /= "panic"]_vars

\* C30: the lock is released at the end of every render call, the call
\* that panics because the first element of its label is not a string
\* included; that call writes nothing to the sink.
C30_LockReleased ==
  /\ [](pc \in {"done", "panic"} => ~mu)
  /\ [][pc = "write" =>
          /\ ~mu'
          /\ label.kind = "other" => (pc' = "panic" /\ out' = out)]_vars

\* a render call holds the lock after a call that panicked on its label; the
\* sink has received nothing
C30_Witness ==
  /\ pc = "initPointers"
  /\ mu
  /\ fatal = "panic"
  /\ out = <<>>

====
